---- MODULE Spec2Model ----
(***************************************************************************)
(* A model of rs-async-zip: the EOCDR locator (read/io/locator.rs), the    *)
(* archive writer (write/mod.rs), the central directory parser             *)
(* (read/mod.rs), the reader facades (read/mem.rs, read/fs.rs,             *)
(* read/seek.rs) and the entry reader (read/io/entry.rs, hashed.rs,        *)
(* compressed.rs, owned.rs).                                               *)
(*                                                                         *)
(* Bytes are integers 0..255.  A byte source is a record                   *)
(*   [len |-> L, marks |-> (position -> byte), fill |-> byte]              *)
(* whose byte at position p (0-based) is marks[p] when p is marked and     *)
(* fill otherwise, so that sources of 65 557 bytes and more are modelled   *)
(* with the locator's real constants.                                      *)
(***************************************************************************)
EXTENDS Integers, Sequences, FiniteSets, TLC

VARIABLES
    \* ---- locator (read/io/locator.rs, eocdr) ----
    source,      \* the reader's data
    length,      \* let length
    position,    \* let mut position
    search,      \* let mut search: Option<SignatureMatch>
    reads,       \* number of reader.read calls made so far
    eocdr_pc,    \* "start" | "loop" | "done"
    eocdr_ret,   \* the value eocdr() returned (or its panic)
    \* ---- writer (write/mod.rs, ZipFileWriter) ----
    sink,        \* the AsyncWrite behind `writer`: the bytes it accepted, its calls
    sink_fault,  \* the one write call at which the sink is short or fails, if any
    cd_entries,  \* self.cd_entries
    written,     \* self.written
    writer_pc,   \* "open" | "closed" (close consumes the writer)
    writer_ret,  \* what the last write_entry or close returned
    added,       \* the options and data of the entries write_entry returned Ok for
    offered,     \* the chunks close() handed to writer.write, in order
    close_at,    \* the sink's length when close() began and when it offered the EOCDR
    \* ---- reader facades and entry readers (read/mem.rs, read/fs.rs, read/io) ----
    facade,      \* the ZipFileReader constructed, if any: its kind, data and ZipFile
    facade_ret,  \* what the last constructor or entry_reader call returned
    readers,     \* the ZipEntryReader values, by reader id
    \* ---- a call of reverse_search_buffer on its own (read/io/locator.rs) ----
    rsb_buffer,     \* its buffer argument
    rsb_signature,  \* its signature argument
    rsb_ret         \* whether it was called, and the Option<SignatureMatch> returned

locVars == <<source, length, position, search, reads, eocdr_pc, eocdr_ret>>
writerVars ==
    <<sink, sink_fault, cd_entries, written, writer_pc, writer_ret, added, offered, close_at>>
readerVars == <<facade, facade_ret, readers>>
searchVars == <<rsb_buffer, rsb_signature, rsb_ret>>
vars == <<locVars, writerVars, readerVars, searchVars>>

(***************************************************************************)
(* Arithmetic helpers                                                      *)
(***************************************************************************)
Min(a, b) == IF a <= b THEN a ELSE b

\* u64/usize saturating_sub
saturating_sub(a, b) == IF a >= b THEN a - b ELSE 0

SetMax(S) == CHOOSE x \in S : \A y \in S : y <= x

RECURSIVE Pow(_, _)
Pow(b, e) == IF e = 0 THEN 1 ELSE b * Pow(b, e - 1)

\* uN::to_le_bytes: the n little-endian bytes of v (v taken modulo 2^(8n))
to_le_bytes(v, n) == [i \in 1..n |-> (v \div Pow(256, i - 1)) % 256]

RECURSIVE from_le_bytes(_)
\* uN::from_le_bytes
from_le_bytes(bytes) ==
    IF bytes = <<>> THEN 0 ELSE Head(bytes) + 256 * from_le_bytes(Tail(bytes))

(***************************************************************************)
(* Constants of the format (spec/consts.rs) and of the locator             *)
(***************************************************************************)
SIGNATURE_LENGTH == 4

\* 0x06054b50
EOCDR_SIGNATURE == 101010256

\* the length of the EOCDR without its signature and comment
EOCDR_LENGTH == 18

U16_MAX == 65535

BUFFER_SIZE == 2048

EOCDR_UPPER_BOUND == EOCDR_LENGTH

EOCDR_LOWER_BOUND == EOCDR_UPPER_BOUND + SIGNATURE_LENGTH + U16_MAX

\* let signature = &EOCDR_SIGNATURE.to_le_bytes()
signature == to_le_bytes(EOCDR_SIGNATURE, SIGNATURE_LENGTH)

(***************************************************************************)
(* Byte sources                                                            *)
(***************************************************************************)
ByteAt(src, p) == IF p \in DOMAIN src.marks THEN src.marks[p] ELSE src.fill

\* reader.read(&mut buffer) of an in-memory or file source positioned at pos:
\* the bytes from pos up to the buffer's size or the end of the data
ReadAt(src, pos, size) ==
    [i \in 1..Min(size, saturating_sub(src.len, pos)) |-> ByteAt(src, pos + i - 1)]

\* bytes placed at position at (0-based)
Place(bytes, at) == [p \in at..(at + Len(bytes) - 1) |-> bytes[p - at + 1]]

NoMarks == [p \in {} |-> 0]

(***************************************************************************)
(* reverse_search_buffer (locator.rs 103-122)                              *)
(***************************************************************************)
NoMatch == [found |-> FALSE, full_match |-> FALSE, match_index |-> 0]

SomeMatch(full, index) == [found |-> TRUE, full_match |-> full, match_index |-> index]

RECURSIVE MatchFrom(_, _, _, _)
\* The inner loop of reverse_search_buffer at `index`, from `signature_index` on:
\* "full" when every signature byte matched, "partial" when the start of the
\* buffer was hit after at least one byte matched, "none" on a mismatch.
MatchFrom(buffer, sig, index, signature_index) ==
    IF signature_index = Len(sig) THEN "full"
    ELSE IF index - signature_index < 0 /\ signature_index # 0 THEN "partial"
    ELSE IF buffer[index - signature_index + 1] # sig[Len(sig) - signature_index] THEN "none"
    ELSE MatchFrom(buffer, sig, index, signature_index + 1)

\* a search that runs index from 0 up and returns at the first index whose
\* inner loop does not `continue 'outer` (`for index in 0..buffer.len()`)
forward_search_buffer(buffer, sig) ==
    LET hits == {index \in 0..(Len(buffer) - 1) : MatchFrom(buffer, sig, index, 0) # "none"}
    IN  IF hits = {} THEN NoMatch
        ELSE LET index == CHOOSE i \in hits : \A j \in hits : i <= j
             IN  SomeMatch(MatchFrom(buffer, sig, index, 0) = "full", index)

\* The outer loop runs index from buffer.len()-1 down to 0 and returns at the
\* first index whose inner loop does not `continue 'outer`.
reverse_search_buffer(buffer, sig) ==
    LET hits == {index \in 0..(Len(buffer) - 1) : MatchFrom(buffer, sig, index, 0) # "none"}
    IN  IF hits = {} THEN NoMatch
        ELSE LET index == SetMax(hits)
             IN  SomeMatch(MatchFrom(buffer, sig, index, 0) = "full", index)

(***************************************************************************)
(* eocdr (locator.rs 45-87)                                                *)
(***************************************************************************)
RetOk(offset) == [kind |-> "Ok", offset |-> offset, error |-> ""]

RetErr(e) == [kind |-> "Err", offset |-> 0, error |-> e]

RetPanic(why) == [kind |-> "Panic", offset |-> 0, error |-> why]

NoRet == [kind |-> "None", offset |-> 0, error |-> ""]

\* let mut position = reader.seek(SeekFrom::Start(length.saturating_sub(..)))
EocdrStartPosition(len) == saturating_sub(len, EOCDR_LENGTH + BUFFER_SIZE)

\* The check of a carried partial match against the end of the new slice
\* (locator.rs 61-70): "none" when there is no carried match or it is not
\* confirmed, else the return value (or the panic of the slice index or of the
\* assertion).
ConfirmPartial(slice, pos, srch) ==
    IF ~srch.found THEN NoRet
    ELSE IF Len(slice) < srch.match_index + 1 THEN RetPanic("slice index")
    ELSE LET start == Len(slice) - (srch.match_index + 1)
             partial_buffer == SubSeq(slice, start + 1, Len(slice))
             partial_signature == SubSeq(signature, 1, srch.match_index + 1)
             new_matched == reverse_search_buffer(partial_buffer, partial_signature)
         IN  IF ~new_matched.found THEN NoRet
             ELSE IF ~new_matched.full_match THEN RetPanic("assert new_matched.full_match")
             ELSE RetOk(pos + start)

\* The loop's exit test (locator.rs 81)
HitLowerBound(len, pos) == pos = 0 \/ pos <= saturating_sub(len, EOCDR_LOWER_BOUND)

\* One iteration of the loop (locator.rs 56-85): the value returned, if any, and
\* the position and carried match of the next iteration otherwise.
EocdrIteration(src, len, pos, srch) ==
    LET slice == ReadAt(src, pos, BUFFER_SIZE)
        confirmed == ConfirmPartial(slice, pos, srch)
        matched == reverse_search_buffer(slice, signature)
    IN  IF confirmed.kind # "None"
        THEN [ret |-> confirmed, position |-> pos, search |-> srch]
        ELSE IF matched.found /\ matched.full_match
        THEN [ret |-> RetOk(pos + ((matched.match_index + 1) - Len(signature))),
              position |-> pos, search |-> srch]
        ELSE LET srch2 == IF matched.found THEN matched ELSE srch
             IN  IF HitLowerBound(len, pos)
                 THEN [ret |-> RetErr("UnableToLocateEOCDR"), position |-> pos, search |-> srch2]
                 ELSE [ret |-> NoRet, position |-> saturating_sub(pos, BUFFER_SIZE),
                       search |-> srch2]

RECURSIVE EocdrLoop(_, _, _, _)
EocdrLoop(src, len, pos, srch) ==
    LET it == EocdrIteration(src, len, pos, srch)
    IN  IF it.ret.kind # "None" THEN it.ret
        ELSE EocdrLoop(src, len, it.position, it.search)

\* eocdr(reader) as a function of the reader's data
eocdr(src) == EocdrLoop(src, src.len, EocdrStartPosition(src.len), NoMatch)

(***************************************************************************)
(* The sources the locator is run on                                       *)
(***************************************************************************)
\* the longest run of archive data before the EOCDR
MaxPrefix == 5000

\* the 22 bytes of an EOCDR with no entries and a comment of c bytes
EocdrBytes(c) ==
    signature \o [i \in 1..(EOCDR_LENGTH - 2) |-> 0] \o to_le_bytes(c, 2)

\* n bytes of archive data, an EOCDR with a comment of c bytes, g more bytes;
\* every byte that is not the EOCDR's is `fill`
Archive(n, c, g, fill) ==
    [len |-> n + SIGNATURE_LENGTH + EOCDR_LENGTH + c + g,
     marks |-> Place(EocdrBytes(c), n), fill |-> fill]

\* src with the bytes `bytes` written at position `at`
Overwrite(src, bytes, at) ==
    [src EXCEPT !.marks =
        [p \in (DOMAIN src.marks) \cup (at..(at + Len(bytes) - 1)) |->
            IF p \in at..(at + Len(bytes) - 1) THEN bytes[p - at + 1] ELSE src.marks[p]]]

Plain(len, fill) == [len |-> len, marks |-> NoMarks, fill |-> fill]

PrefixLens == {0, 1, 100, BUFFER_SIZE - 4, BUFFER_SIZE - 3, BUFFER_SIZE - 2, MaxPrefix}

CommentLens == {0, 1, 17, 18, 1000, U16_MAX}

FillBytes == {0, 32}

\* well-formed archives: a prefix, an EOCDR and its comment
ValidArchives == {Archive(n, c, 0, f) : n \in PrefixLens, c \in CommentLens, f \in FillBytes}

\* archives followed by U16_MAX + 1 bytes that hold no signature
GarbageArchives == {Archive(n, 0, U16_MAX + 1, 32) : n \in PrefixLens}

\* inputs shorter than a whole EOCDR: plain bytes, and ones holding the signature
ShortInputs ==
    {Plain(l, f) : l \in 0..(SIGNATURE_LENGTH + EOCDR_LENGTH - 1), f \in {0, 6, 80}}
    \cup {Overwrite(Plain(l, 0), signature, at) :
            l \in SIGNATURE_LENGTH..(SIGNATURE_LENGTH + EOCDR_LENGTH - 1), at \in {0, 1}}

\* archives whose signature lies across the lower edge of the first window
\* read: its last k bytes are the first k bytes of that window
StraddleArchives == {Archive(MaxPrefix, BUFFER_SIZE - k, 0, f) : k \in 1..3, f \in FillBytes}

\* the first window read from a source of this length starts at 2 * BUFFER_SIZE
ThreeWindows == 2 * BUFFER_SIZE + EOCDR_LENGTH + BUFFER_SIZE

\* sources without a signature: the first window starts with the last bytes of
\* the signature, the window below it ends with bytes that are not the
\* signature's first bytes but hold some of its bytes
HalfSignatures ==
    { Overwrite(Overwrite(Plain(ThreeWindows, f), tail, 2 * BUFFER_SIZE),
                low, 2 * BUFFER_SIZE - Len(low)) :
        f \in FillBytes,
        tail \in {SubSeq(signature, 2, 4), SubSeq(signature, 3, 4)},
        low \in {<<5, 0, 0>>, <<75, 5, 0>>, <<75, 0>>, <<80, 75>>, <<6, 6>>} }

\* sources without a signature: the first window starts with the signature's
\* last two bytes and a lower window that is not the next one, or one that
\* overlaps the first, ends with the signature's first two bytes
FarHalves ==
    { Overwrite(Overwrite(Plain(ThreeWindows + BUFFER_SIZE, f), SubSeq(signature, 3, 4),
                          3 * BUFFER_SIZE),
                SubSeq(signature, 1, 2), 2 * BUFFER_SIZE - 2) : f \in FillBytes }
    \cup
    { Overwrite(Overwrite(Plain(BUFFER_SIZE + EOCDR_LENGTH + at, f), SubSeq(signature, 3, 4), at),
                SubSeq(signature, 1, 2), BUFFER_SIZE - 2) : f \in FillBytes, at \in {1000, 2040} }

LocatorSources ==
    ValidArchives \cup GarbageArchives \cup ShortInputs
    \cup StraddleArchives \cup HalfSignatures \cup FarHalves

(***************************************************************************)
(* Fixed-width integers, CRC-32 and the codecs                             *)
(***************************************************************************)
\* TLC's integers have 31 bits.  Lengths, offsets and sizes stay far below 2^31
\* in this model and are held as integers; a CRC-32 is held as its four
\* little-endian bytes and computed on 16-bit halves.

\* `x as u16`, `x as u32`
AsU16(x) == x % Pow(2, 16)

AsU32(x) == (x % Pow(2, 16)) + Pow(2, 16) * ((x \div Pow(2, 16)) % Pow(2, 16))

RECURSIVE BitXor(_, _)
BitXor(a, b) ==
    IF a = 0 THEN b
    ELSE IF b = 0 THEN a
    ELSE ((a + b) % 2) + 2 * BitXor(a \div 2, b \div 2)

\* the reflected IEEE 802.3 polynomial 0xEDB88320 of crc32fast, as two halves
CRC32_POLY_HI == 60856

CRC32_POLY_LO == 33568

\* one bit of the reflected CRC: shift right, xor the polynomial if a 1 fell out
CrcShift1(c) ==
    LET sh == [hi |-> c.hi \div 2, lo |-> (c.lo \div 2) + (c.hi % 2) * Pow(2, 15)]
    IN  IF c.lo % 2 = 1
        THEN [hi |-> BitXor(sh.hi, CRC32_POLY_HI), lo |-> BitXor(sh.lo, CRC32_POLY_LO)]
        ELSE sh

RECURSIVE CrcShift(_, _)
CrcShift(c, k) ==
    IF k = 0 THEN c
    ELSE LET next == CrcShift1(c)
         IN  IF next.lo >= 0 THEN CrcShift(next, k - 1) ELSE next

\* crc32fast's table: the CRC register after the eight shifts of one byte
CrcTable == [n \in 0..255 |-> CrcShift([hi |-> 0, lo |-> n], 8)]

\* one byte: table[(crc ^ byte) & 0xff] ^ (crc >> 8)
CrcByte(c, byte) ==
    LET t == CrcTable[BitXor(c.lo % 256, byte)]
    IN  [hi |-> BitXor(t.hi, c.hi \div 256),
         lo |-> BitXor(t.lo, (c.lo \div 256) + (c.hi % 256) * 256)]

RECURSIVE CrcBytes(_, _)
CrcBytes(c, bytes) ==
    IF bytes = <<>> THEN c
    ELSE LET next == CrcByte(c, Head(bytes))
         IN  IF next.lo >= 0 THEN CrcBytes(next, Tail(bytes)) ELSE next

CrcNot(c) == [hi |-> (Pow(2, 16) - 1) - c.hi, lo |-> (Pow(2, 16) - 1) - c.lo]

\* crc32fast::Hasher: the state is the CRC-32 of the bytes fed so far
HasherNew == [hi |-> 0, lo |-> 0]

HasherUpdate(h, bytes) == CrcNot(CrcBytes(CrcNot(h), bytes))

\* Hasher::finalize: the u32, as its little-endian bytes
HasherFinalize(h) == to_le_bytes(h.lo, 2) \o to_le_bytes(h.hi, 2)

\* write/mod.rs compute_crc
compute_crc(data) == HasherFinalize(HasherUpdate(HasherNew, data))

\* Compression::to_u16
CompressionCode(c) == IF c = "Stored" THEN 0 ELSE 8

\* The codec behind Compression::Deflate (async_compression) is not this
\* repository's code.  It is modelled by a framing with the properties the
\* library relies on: the encoding differs from the data, decoding inverts it,
\* and a stream that is cut short or does not start with the tag is an error.
\*   encoded = <<DEFLATE_TAG, Len(data)>> \o [each byte b |-> 255 - b]
DEFLATE_TAG == 75

compress(compression, data) ==
    <<DEFLATE_TAG, Len(data)>> \o [i \in 1..Len(data) |-> 255 - data[i]]

\* write_entry's `compressed_data`
CompressedData(compression, raw_data) ==
    IF compression = "Stored" THEN raw_data ELSE compress(compression, raw_data)

(***************************************************************************)
(* Header layouts (spec/header.rs; the bodies follow the signature)        *)
(***************************************************************************)
\* 0x04034b50, 0x02014b50, 0x06054b50
LFHD == 67324752

CDFHD == 33639248

EOCDD == EOCDR_SIGNATURE

LFH_LENGTH == 26

CDH_LENGTH == 42

\* GeneralPurposeFlag: bit 0 = encrypted, bit 3 = data_descriptor
FlagBits(flags) ==
    (IF flags.encrypted THEN 1 ELSE 0) + (IF flags.data_descriptor THEN 8 ELSE 0)

\* LocalFileHeader::to_slice
LfhToSlice(h) ==
    to_le_bytes(h.version, 2) \o to_le_bytes(FlagBits(h.flags), 2)
    \o to_le_bytes(h.compression, 2) \o to_le_bytes(h.mod_time, 2)
    \o to_le_bytes(h.mod_date, 2) \o h.crc
    \o to_le_bytes(h.compressed_size, 4) \o to_le_bytes(h.uncompressed_size, 4)
    \o to_le_bytes(h.file_name_length, 2) \o to_le_bytes(h.extra_field_length, 2)

\* CentralDirectoryHeader::to_slice
CdhToSlice(h) ==
    to_le_bytes(h.v_made_by, 2) \o to_le_bytes(h.v_needed, 2)
    \o to_le_bytes(FlagBits(h.flags), 2) \o to_le_bytes(h.compression, 2)
    \o to_le_bytes(h.mod_time, 2) \o to_le_bytes(h.mod_date, 2)
    \o h.crc \o to_le_bytes(h.compressed_size, 4)
    \o to_le_bytes(h.uncompressed_size, 4) \o to_le_bytes(h.file_name_length, 2)
    \o to_le_bytes(h.extra_field_length, 2) \o to_le_bytes(h.file_comment_length, 2)
    \o to_le_bytes(h.disk_start, 2) \o to_le_bytes(h.inter_attr, 2)
    \o to_le_bytes(h.exter_attr, 4) \o to_le_bytes(h.lh_offset, 4)

\* EndOfCentralDirectoryHeader::to_slice
EocdhToSlice(h) ==
    to_le_bytes(h.disk_num, 2) \o to_le_bytes(h.start_cent_dir_disk, 2)
    \o to_le_bytes(h.num_of_entries_disk, 2) \o to_le_bytes(h.num_of_entries, 2)
    \o to_le_bytes(h.size_cent_dir, 4) \o to_le_bytes(h.cent_dir_offset, 4)
    \o to_le_bytes(h.file_comm_length, 2)

(***************************************************************************)
(* The sink: tokio's AsyncWrite::write(buf) returns Ok(n) with n <= len(buf)*)
(* bytes accepted, or an error.  A run has at most one call at which the   *)
(* sink accepts only the first half of the buffer ("short") or fails       *)
(* ("err"); every other call accepts the whole buffer.                     *)
(***************************************************************************)
NoFault == [kind |-> "none", at |-> 0]

SinkNew == [data |-> <<>>, calls |-> 0]

SinkWrite(snk, fault, buf) ==
    LET call == snk.calls + 1
        hit == fault.kind # "none" /\ fault.at = call
    IN  IF hit /\ fault.kind = "err"
        THEN [ok |-> FALSE, n |-> 0, sink |-> [snk EXCEPT !.calls = call]]
        ELSE LET n == IF hit THEN Len(buf) \div 2 ELSE Len(buf)
             IN  [ok |-> TRUE, n |-> n,
                  sink |-> [data |-> snk.data \o SubSeq(buf, 1, n), calls |-> call]]

RECURSIVE WriteChunksPastError(_, _, _)
\* a writer that notes a failed write and goes on with the remaining chunks
\* (`let r = writer.write(chunk).await;` with the `?` after the last write)
WriteChunksPastError(snk, fault, chunks) ==
    IF chunks = <<>> THEN [ok |-> TRUE, sink |-> snk, n |-> 0, done |-> 0]
    ELSE LET r == SinkWrite(snk, fault, Head(chunks))
             rest == WriteChunksPastError(r.sink, fault, Tail(chunks))
         IN  [ok |-> r.ok /\ rest.ok, sink |-> rest.sink, n |-> r.n + rest.n,
              done |-> (IF r.ok THEN 1 ELSE 0) + rest.done]

RECURSIVE WriteChunks(_, _, _)
\* `writer.write(chunk).await?` for each chunk in turn, stopping at the first
\* error: the sink afterwards, the sum of the counts returned and the number of
\* calls that returned Ok.
WriteChunks(snk, fault, chunks) ==
    IF chunks = <<>> THEN [ok |-> TRUE, sink |-> snk, n |-> 0, done |-> 0]
    ELSE LET r == SinkWrite(snk, fault, Head(chunks))
         IN  IF ~r.ok THEN [ok |-> FALSE, sink |-> r.sink, n |-> 0, done |-> 0]
             ELSE LET rest == WriteChunks(r.sink, fault, Tail(chunks))
                  IN  [ok |-> rest.ok, sink |-> rest.sink, n |-> r.n + rest.n,
                       done |-> 1 + rest.done]

(***************************************************************************)
(* ZipFileWriter (write/mod.rs 53-158)                                     *)
(***************************************************************************)
NoFlags == [data_descriptor |-> FALSE, encrypted |-> FALSE]

\* write_entry's lf_header (write/mod.rs 78-89)
LocalFileHeaderOf(opts, raw_data, clock) ==
    [compressed_size |-> AsU32(Len(CompressedData(opts.compression, raw_data))),
     uncompressed_size |-> AsU32(Len(raw_data)),
     compression |-> CompressionCode(opts.compression),
     crc |-> compute_crc(raw_data),
     extra_field_length |-> AsU16(Len(opts.extra)),
     file_name_length |-> AsU16(Len(opts.filename)),
     mod_time |-> clock[1],
     mod_date |-> clock[2],
     version |-> 0,
     flags |-> NoFlags]

\* write_entry's header (write/mod.rs 91-108)
CentralDirectoryHeaderOf(lf_header, opts, wr) ==
    [v_made_by |-> 0,
     v_needed |-> 0,
     compressed_size |-> lf_header.compressed_size,
     uncompressed_size |-> lf_header.uncompressed_size,
     compression |-> lf_header.compression,
     crc |-> lf_header.crc,
     extra_field_length |-> lf_header.extra_field_length,
     file_name_length |-> lf_header.file_name_length,
     file_comment_length |-> AsU16(Len(opts.comment)),
     mod_time |-> lf_header.mod_time,
     mod_date |-> lf_header.mod_date,
     flags |-> lf_header.flags,
     disk_start |-> 0,
     inter_attr |-> 0,
     exter_attr |-> 0,
     lh_offset |-> AsU32(wr)]

\* the five chunks write_entry hands to the sink (write/mod.rs 110-114)
EntryChunks(opts, raw_data, clock) ==
    << to_le_bytes(LFHD, 4),
       LfhToSlice(LocalFileHeaderOf(opts, raw_data, clock)),
       opts.filename,
       opts.extra,
       CompressedData(opts.compression, raw_data) >>

\* the five chunks close() hands to the sink for one entry (write/mod.rs 134-138)
CdEntryChunks(entry) ==
    << to_le_bytes(CDFHD, 4),
       CdhToSlice(entry.header),
       entry.opts.filename,
       entry.opts.extra,
       entry.opts.comment >>

RECURSIVE CdChunksLastFirst(_)
\* a close() that walks cd_entries from its end (`.iter().rev()`)
CdChunksLastFirst(entries) ==
    IF entries = <<>> THEN <<>>
    ELSE CdChunksLastFirst(Tail(entries)) \o CdEntryChunks(Head(entries))

RECURSIVE CdChunks(_)
\* every chunk the loop of close() hands to the sink (write/mod.rs 133-139)
CdChunks(entries) ==
    IF entries = <<>> THEN <<>>
    ELSE CdEntryChunks(Head(entries)) \o CdChunks(Tail(entries))

RECURSIVE CdSize(_)
\* close()'s cd_size (write/mod.rs 140-141)
CdSize(entries) ==
    IF entries = <<>> THEN 0
    ELSE LET e == Head(entries)
         IN  AsU32(AsU32(4 + 42 + AsU32(Len(e.opts.filename))
                         + AsU32(Len(e.opts.extra) + Len(e.opts.comment)))
                   + CdSize(Tail(entries)))

\* close()'s header (write/mod.rs 144-152)
EndOfCentralDirectoryHeaderOf(entries, cd_offset) ==
    [disk_num |-> 0,
     start_cent_dir_disk |-> 0,
     num_of_entries_disk |-> AsU16(Len(entries)),
     num_of_entries |-> AsU16(Len(entries)),
     size_cent_dir |-> CdSize(entries),
     cent_dir_offset |-> AsU32(cd_offset),
     file_comm_length |-> 0]

\* every chunk close() hands to the sink when no write fails
CloseChunks(entries, cd_offset) ==
    CdChunks(entries)
    \o << to_le_bytes(EOCDD, 4),
          EocdhToSlice(EndOfCentralDirectoryHeaderOf(entries, cd_offset)) >>

(***************************************************************************)
(* Parsing an archive (read/mod.rs 20-83)                                  *)
(*                                                                         *)
(* A parse step returns [ok, err, pos, ...]: whether it succeeded, the     *)
(* ZipError if not, and the reader's position afterwards.                  *)
(***************************************************************************)
\* the data of an in-memory or file source as a byte source
SourceOfBytes(data) ==
    [len |-> Len(data), marks |-> [p \in 0..(Len(data) - 1) |-> data[p + 1]], fill |-> 0]

\* the n bytes at pos, for pos + n within the data
BytesAt(src, pos, n) == [i \in 1..n |-> ByteAt(src, pos + i - 1)]

\* u32::from_le_bytes; a value of 2^31 or more, which no length or offset of
\* this model reaches, is held as 2^31 - 1
U32FromLe(bytes) ==
    IF bytes[4] >= 128 THEN (Pow(2, 30) - 1) + Pow(2, 30) ELSE from_le_bytes(bytes)

\* read_exact of n bytes at pos
ReadExact(src, pos, n) ==
    IF pos + n > src.len
    THEN [ok |-> FALSE, err |-> "UpstreamReadError", pos |-> pos, bytes |-> <<>>]
    ELSE [ok |-> TRUE, err |-> "", pos |-> pos + n, bytes |-> BytesAt(src, pos, n)]

\* String::from_utf8 on the bytes read, for ASCII and for bytes that are not
IsUtf8(bytes) == \A i \in 1..Len(bytes) : bytes[i] < 128

\* read::io::read_bytes
read_bytes(src, pos, n) == ReadExact(src, pos, n)

\* read::io::read_string
read_string(src, pos, n) ==
    LET r == ReadExact(src, pos, n)
    IN  IF r.ok /\ ~IsUtf8(r.bytes) THEN [r EXCEPT !.ok = FALSE, !.err = "UpstreamReadError"]
        ELSE r

\* a header's from_reader: the signature, validated, then the fixed-length body
HeaderFromReader(src, pos, sig, body_length) ==
    LET s == ReadExact(src, pos, SIGNATURE_LENGTH)
    IN  IF ~s.ok THEN s
        ELSE IF s.bytes # to_le_bytes(sig, SIGNATURE_LENGTH)
        THEN [ok |-> FALSE, err |-> "UnexpectedHeaderError", pos |-> s.pos, bytes |-> <<>>]
        ELSE ReadExact(src, s.pos, body_length)

\* EndOfCentralDirectoryHeader::from_reader: the fields of the 18-byte body
EocdhFromSlice(b) ==
    [disk_num |-> from_le_bytes(SubSeq(b, 1, 2)),
     start_cent_dir_disk |-> from_le_bytes(SubSeq(b, 3, 4)),
     num_of_entries_disk |-> from_le_bytes(SubSeq(b, 5, 6)),
     num_of_entries |-> from_le_bytes(SubSeq(b, 7, 8)),
     size_cent_dir |-> U32FromLe(SubSeq(b, 9, 12)),
     cent_dir_offset |-> U32FromLe(SubSeq(b, 13, 16)),
     file_comm_length |-> from_le_bytes(SubSeq(b, 17, 18))]

\* CentralDirectoryHeader::from_reader: the fields of the 42-byte body
CdhFromSlice(b) ==
    [v_made_by |-> from_le_bytes(SubSeq(b, 1, 2)),
     v_needed |-> from_le_bytes(SubSeq(b, 3, 4)),
     flags |-> [encrypted |-> (b[5] % 2) = 1, data_descriptor |-> ((b[5] \div 8) % 2) = 1],
     compression |-> from_le_bytes(SubSeq(b, 7, 8)),
     mod_time |-> from_le_bytes(SubSeq(b, 9, 10)),
     mod_date |-> from_le_bytes(SubSeq(b, 11, 12)),
     crc |-> SubSeq(b, 13, 16),
     compressed_size |-> U32FromLe(SubSeq(b, 17, 20)),
     uncompressed_size |-> U32FromLe(SubSeq(b, 21, 24)),
     file_name_length |-> from_le_bytes(SubSeq(b, 25, 26)),
     extra_field_length |-> from_le_bytes(SubSeq(b, 27, 28)),
     file_comment_length |-> from_le_bytes(SubSeq(b, 29, 30)),
     disk_start |-> from_le_bytes(SubSeq(b, 31, 32)),
     inter_attr |-> from_le_bytes(SubSeq(b, 33, 34)),
     exter_attr |-> U32FromLe(SubSeq(b, 35, 38)),
     lh_offset |-> U32FromLe(SubSeq(b, 39, 42))]

\* Compression::try_from(u16)
CompressionCodes == {0, 8, 12, 14, 93, 95}

CompressionFromCode(code) ==
    CASE code = 0 -> "Stored"
      [] code = 8 -> "Deflate"
      [] code = 12 -> "Bz"
      [] code = 14 -> "Lzma"
      [] code = 93 -> "Zstd"
      [] OTHER -> "Xz"

ParseFailed(err, pos) == [ok |-> FALSE, err |-> err, pos |-> pos]

\* cd_record, from `let entry` on (read/mod.rs 61-82)
CdRecordBuilt(header, filename, extra_field, comment) ==
    [ok |-> TRUE, err |-> "", pos |-> comment.pos,
     entry |-> [filename |-> filename.bytes,
                compression |-> CompressionFromCode(header.compression),
                crc32 |-> header.crc,
                uncompressed_size |-> header.uncompressed_size,
                compressed_size |-> header.compressed_size,
                mod_date |-> header.mod_date,
                mod_time |-> header.mod_time,
                internal_file_attribute |-> header.inter_attr,
                external_file_attribute |-> header.exter_attr,
                extra_field |-> extra_field.bytes,
                comment |-> comment.bytes],
     meta |-> [general_purpose_flag |-> header.flags,
               file_offset |-> header.lh_offset]]

\* cd_record, once the comment was read (read/mod.rs 60)
CdRecordComment(header, filename, extra_field, comment) ==
    IF ~comment.ok THEN ParseFailed(comment.err, comment.pos)
    ELSE CdRecordBuilt(header, filename, extra_field, comment)

\* cd_record, once the extra field was read (read/mod.rs 59-60)
CdRecordExtra(src, header, filename, extra_field) ==
    IF ~extra_field.ok THEN ParseFailed(extra_field.err, extra_field.pos)
    ELSE CdRecordComment(header, filename, extra_field,
                         read_string(src, extra_field.pos, header.file_comment_length))

\* cd_record, once the file name was read (read/mod.rs 57-59)
CdRecordFilename(src, header, filename) ==
    IF ~filename.ok THEN ParseFailed(filename.err, filename.pos)
    ELSE IF header.compression \notin CompressionCodes
    THEN ParseFailed("UnsupportedCompressionError", filename.pos)
    ELSE CdRecordExtra(src, header, filename,
                       read_bytes(src, filename.pos, header.extra_field_length))

\* cd_record, once the header was read (read/mod.rs 56-57)
CdRecordHeader(src, header, pos) ==
    CdRecordFilename(src, header, read_string(src, pos, header.file_name_length))

\* cd_record, once the header's bytes were read (read/mod.rs 56)
CdRecordRead(src, h) ==
    IF ~h.ok THEN ParseFailed(h.err, h.pos)
    ELSE CdRecordHeader(src, CdhFromSlice(h.bytes), h.pos)

\* cd_record (read/mod.rs 52-83)
cd_record(src, pos) == CdRecordRead(src, HeaderFromReader(src, pos, CDFHD, CDH_LENGTH))

\* entries.push(entry); metas.push(meta)  (read/mod.rs 45-46)
PushRecord(lists, rec) ==
    [entries |-> Append(lists.entries, rec.entry), metas |-> Append(lists.metas, rec.meta)]

RECURSIVE CdLoop(_, _, _, _)
RECURSIVE CdLoopRecord(_, _, _, _)
\* the loop of cd (read/mod.rs 42-47) with `left` records still to read
CdLoop(src, pos, left, lists) ==
    IF left = 0 THEN [ok |-> TRUE, err |-> "", pos |-> pos,
                      entries |-> lists.entries, metas |-> lists.metas]
    ELSE CdLoopRecord(src, left, lists, cd_record(src, pos))

\* the body of the loop once cd_record returned (read/mod.rs 43-46)
CdLoopRecord(src, left, lists, rec) ==
    IF ~rec.ok THEN [ok |-> FALSE, err |-> rec.err, pos |-> rec.pos,
                     entries |-> <<>>, metas |-> <<>>]
    ELSE CdLoop(src, rec.pos, left - 1, PushRecord(lists, rec))

\* cd (read/mod.rs 34-50)
cd(src, pos, num_of_entries) ==
    CdLoop(src, pos, num_of_entries, [entries |-> <<>>, metas |-> <<>>])

NoZipFile(err) == [ok |-> FALSE, err |-> err, entries |-> <<>>, metas |-> <<>>, comment |-> <<>>]

\* file, once cd returned (read/mod.rs 29-31)
FileParsed(comment, parsed) ==
    IF ~parsed.ok THEN NoZipFile(parsed.err)
    ELSE [ok |-> TRUE, err |-> "", entries |-> parsed.entries,
          metas |-> parsed.metas, comment |-> comment.bytes]

\* file, once the comment was read (read/mod.rs 26-29)
FileComment(src, header, comment) ==
    IF ~comment.ok THEN NoZipFile(comment.err)
    ELSE FileParsed(comment, cd(src, header.cent_dir_offset, header.num_of_entries))

\* file, once the EOCDR was read (read/mod.rs 25-26)
FileHeader(src, header, pos) ==
    FileComment(src, header, read_string(src, pos, header.file_comm_length))

\* file, once the EOCDR's bytes were read (read/mod.rs 25)
FileRead(src, h) ==
    IF ~h.ok THEN NoZipFile(h.err) ELSE FileHeader(src, EocdhFromSlice(h.bytes), h.pos)

\* file, once the locator returned (read/mod.rs 22-25)
FileLocated(src, located) ==
    IF located.kind = "Panic" THEN NoZipFile("panic")
    ELSE IF located.kind = "Err" THEN NoZipFile(located.error)
    ELSE FileRead(src, HeaderFromReader(src, located.offset, EOCDR_SIGNATURE, EOCDR_LENGTH))

\* file (read/mod.rs 20-32)
file(src) == FileLocated(src, eocdr(src))

(***************************************************************************)
(* The entry reader (read/io/entry.rs, hashed.rs, compressed.rs, owned.rs) *)
(*                                                                         *)
(* A reader is HashedReader<CompressedReader<Take<OwnedReader<R>>>> and is *)
(* held as one record:                                                     *)
(*   src, pos      the owned source R and its position                     *)
(*   fail_at       the number of the read of R that fails (0: none does)   *)
(*   nreads        the reads of R made so far                              *)
(*   limit         the bytes Take may still pass on                        *)
(*   compression   the variant of CompressedReader                         *)
(*   inbuf, dec    the decoder's fetched input and its progress            *)
(*   hasher        the HashedReader's running CRC-32                       *)
(*   out, eof      the bytes delivered to the caller; whether a poll has   *)
(*                 reported end of file                                    *)
(*   pc, crc32, ret  the position of a read_to_end_checked call, the       *)
(*                 crc32 of the entry it was given, and its result         *)
(*   pend          the polls of R that return Pending before R is ready    *)
(*   hashes, hash, the calls of compute_hash made, what the last returned, *)
(*   mark, segment the length of out at that call and the bytes delivered  *)
(*                 between the call before it and that call                *)
(***************************************************************************)
BUF_READER_CAPACITY == 8192

DecoderNew == [phase |-> "head", left |-> 0]

NoResult == [kind |-> "None", n |-> 0, error |-> ""]

NoReader ==
    [state |-> "none", src |-> <<>>, pos |-> 0, fail_at |-> 0, nreads |-> 0, limit |-> 0,
     compression |-> "Stored", inbuf |-> <<>>, dec |-> DecoderNew, hasher |-> HasherNew,
     out |-> <<>>, eof |-> FALSE, pc |-> "idle", crc32 |-> <<>>, ret |-> NoResult, index |-> 0,
     pend |-> 0, hashes |-> 0, hash |-> <<>>, mark |-> 0, segment |-> <<>>]

\* HashedReader::new(CompressedReader::new(OwnedReader::Owned(reader).take(size), compression))
new_with_owned(reader, compression, size) ==
    [NoReader EXCEPT !.state = "open", !.src = reader.src, !.pos = reader.pos,
                     !.fail_at = reader.fail_at, !.limit = size, !.compression = compression]

\* the outcome of one poll_read: the reader afterwards and what the caller got
Polled(rd, kind, bytes) == [rd |-> rd, kind |-> kind, bytes |-> bytes]

\* OwnedReader::poll_read: the read of R itself, of at most max bytes
OwnedPollRead(rd, max) ==
    IF rd.pend > 0 THEN Polled([rd EXCEPT !.pend = @ - 1], "pending", <<>>)
    ELSE IF rd.nreads + 1 = rd.fail_at
    THEN Polled([rd EXCEPT !.nreads = @ + 1], "err", <<>>)
    ELSE LET n == Min(max, Len(rd.src) - rd.pos)
         IN  Polled([rd EXCEPT !.nreads = @ + 1, !.pos = @ + n],
                    IF n = 0 THEN "eof" ELSE "data", SubSeq(rd.src, rd.pos + 1, rd.pos + n))

\* a reader built without `.take(size)`: every poll goes to R
TakePollReadUnlimited(rd, max) == OwnedPollRead(rd, max)

\* Take::poll_read: nothing is asked of R once the limit is used up
TakePollRead(rd, max) ==
    IF rd.limit = 0 THEN Polled(rd, "eof", <<>>)
    ELSE LET r == OwnedPollRead(rd, Min(max, rd.limit))
         IN  Polled([r.rd EXCEPT !.limit = @ - Len(r.bytes)], r.kind, r.bytes)

RECURSIVE DecoderPollRead(_, _)
\* bufread::DeflateDecoder<BufReader<Take<..>>>::poll_read on the stream the
\* writer's compress produces: a tag, the length, the transformed bytes. A
\* stream that ends early or does not start with the tag is an error.
DecoderPollRead(rd, cap) ==
    IF rd.dec.phase = "done" THEN Polled(rd, "eof", <<>>)
    ELSE IF rd.dec.phase = "head" /\ Len(rd.inbuf) >= 2
    THEN IF rd.inbuf[1] # DEFLATE_TAG THEN Polled(rd, "err", <<>>)
         ELSE DecoderPollRead([rd EXCEPT !.inbuf = SubSeq(@, 3, Len(@)),
                                         !.dec = [phase |-> IF rd.inbuf[2] = 0 THEN "done" ELSE "body",
                                                  left |-> rd.inbuf[2]]], cap)
    ELSE IF rd.dec.phase = "body" /\ Len(rd.inbuf) >= 1
    THEN LET n == Min(cap, Min(rd.dec.left, Len(rd.inbuf)))
         IN  Polled([rd EXCEPT !.inbuf = SubSeq(@, n + 1, Len(@)),
                               !.dec = [phase |-> IF rd.dec.left = n THEN "done" ELSE "body",
                                        left |-> rd.dec.left - n]],
                    "data", [i \in 1..n |-> 255 - rd.inbuf[i]])
    ELSE LET fill == TakePollRead(rd, BUF_READER_CAPACITY)
         IN  IF fill.kind = "pending" THEN fill
             ELSE IF fill.kind # "data" THEN Polled(fill.rd, "err", <<>>)
             ELSE DecoderPollRead([fill.rd EXCEPT !.inbuf = @ \o fill.bytes], cap)

\* CompressedReader::poll_read (compressed.rs 49-65)
CompressedPollRead(rd, cap) ==
    IF rd.compression = "Stored" THEN TakePollRead(rd, cap) ELSE DecoderPollRead(rd, cap)

\* a HashedReader::poll_read that leaves the hasher as it is
HashedPollReadUnhashed(rd, cap) == CompressedPollRead(rd, cap)

\* HashedReader::poll_read (hashed.rs 45-55)
HashedPollRead(rd, cap) ==
    LET r == CompressedPollRead(rd, cap)
    IN  IF r.kind \in {"err", "pending"} THEN r
        ELSE Polled([r.rd EXCEPT !.hasher = HasherUpdate(@, r.bytes)], r.kind, r.bytes)

\* ZipEntryReader::poll_read (entry.rs 34-38)
EntryPollRead(rd, cap) == HashedPollRead(rd, cap)

\* a compute_hash that finalizes a copy of the hasher and keeps the original
\* (`self.hasher.clone().finalize()`)
clone_and_compute_hash(rd) == [rd |-> rd, hash |-> HasherFinalize(rd.hasher)]

\* HashedReader::swap_and_compute_hash (hashed.rs 40-42)
swap_and_compute_hash(rd) == [rd |-> [rd EXCEPT !.hasher = HasherNew], hash |-> HasherFinalize(rd.hasher)]

ResultOk(n) == [kind |-> "Ok", n |-> n, error |-> ""]

ResultErr(e) == [kind |-> "Err", n |-> 0, error |-> e]

\* read_to_end_checked once read_to_end has returned Ok(read) (entry.rs 78-82)
CheckHash(rd, read) ==
    LET h == swap_and_compute_hash(rd)
    IN  [h.rd EXCEPT !.pc = "done",
                     !.ret = IF h.hash = rd.crc32 THEN ResultOk(read)
                             ELSE ResultErr("CRC32CheckError")]

\* one turn of the loop of read_to_end inside read_to_end_checked
\* (entry.rs 75-83): a poll of the reader for at most cap bytes
ReadToEndCheckedPoll(rd, cap) ==
    LET r == EntryPollRead(rd, cap)
    IN  CASE r.kind = "err" ->
                [r.rd EXCEPT !.pc = "done", !.ret = ResultErr("UpstreamReadError")]
          [] r.kind = "eof" -> CheckHash([r.rd EXCEPT !.eof = TRUE], Len(r.rd.out))
          [] OTHER -> [r.rd EXCEPT !.out = @ \o r.bytes]

(***************************************************************************)
(* The locator as a state machine                                          *)
(***************************************************************************)
InitLocator ==
    /\ source \in LocatorSources
    /\ length = 0
    /\ position = 0
    /\ search = NoMatch
    /\ reads = 0
    /\ eocdr_pc = "start"
    /\ eocdr_ret = NoRet

\* locator.rs 49-53
EocdrStart ==
    /\ eocdr_pc = "start"
    /\ length' = source.len
    /\ position' = EocdrStartPosition(source.len)
    /\ search' = NoMatch
    /\ eocdr_pc' = "loop"
    /\ UNCHANGED <<source, reads, eocdr_ret>>

\* locator.rs 56-85, one pass of the loop
EocdrIterate ==
    /\ eocdr_pc = "loop"
    /\ LET it == EocdrIteration(source, length, position, search)
       IN  /\ reads' = reads + 1
           /\ position' = it.position
           /\ search' = it.search
           /\ eocdr_ret' = it.ret
           /\ eocdr_pc' = IF it.ret.kind = "None" THEN "loop" ELSE "done"
    /\ UNCHANGED <<source, length>>


(***************************************************************************)
(* reverse_search_buffer called on its own                                 *)
(***************************************************************************)
\* the longest buffer and the longest signature searched
MaxBufferLen == 4

MaxSignatureLen == 3

\* the sequences over S of at most n elements
SeqsUpTo(S, n) == UNION {[1..k -> S] : k \in 0..n}

NotCalled == [called |-> FALSE, matched |-> NoMatch]

SearchIdle ==
    /\ rsb_buffer = <<>>
    /\ rsb_signature = <<>>
    /\ rsb_ret = NotCalled

\* buffers over three byte values, signatures of at least one byte over two
SearchInputs ==
    /\ rsb_buffer \in SeqsUpTo({0, 1, 2}, MaxBufferLen)
    /\ rsb_signature \in SeqsUpTo({1, 2}, MaxSignatureLen) \ {<<>>}
    /\ rsb_ret = NotCalled

\* let matched = reverse_search_buffer(buffer, signature)
ReverseSearch ==
    /\ ~rsb_ret.called
    /\ rsb_signature # <<>>
    /\ rsb_ret' = [called |-> TRUE,
                   matched |-> reverse_search_buffer(rsb_buffer, rsb_signature)]
    /\ UNCHANGED <<rsb_buffer, rsb_signature>>

(***************************************************************************)
(* The writer as a state machine                                           *)
(***************************************************************************)
\* the most entries a run adds
MaxEntries == 2

\* the sink's faulty call is one of its first MaxFaultAt calls
MaxFaultAt == 12

\* EntryOptions::new(filename, compression).extra(extra).comment(comment)
EntryOptionsOf(filename, compression, extra, comment) ==
    [filename |-> filename, compression |-> compression, extra |-> extra, comment |-> comment]

\* the (options, data) pairs write_entry is called with: both compressions, with
\* and without data, extra field and comment, under two file names
EntryInputs ==
    { <<EntryOptionsOf(<<97>>, "Stored", <<>>, <<>>), <<102, 111>>>>,
      <<EntryOptionsOf(<<98>>, "Deflate", <<9>>, <<99, 100>>), <<102, 111>>>>,
      <<EntryOptionsOf(<<98>>, "Stored", <<9>>, <<99, 100>>), <<>>>>,
      <<EntryOptionsOf(<<97>>, "Deflate", <<>>, <<>>), <<111>>>> }

\* chrono_to_zip_time(&Utc::now()): (mod_time, mod_date), here 1980-01-01 00:00
Clocks == {<<0, 33>>}

Faults == {NoFault} \cup {[kind |-> k, at |-> a] : k \in {"short", "err"}, a \in 1..MaxFaultAt}

WriterIdle ==
    /\ sink = SinkNew
    /\ sink_fault = NoFault
    /\ cd_entries = <<>>
    /\ written = 0
    /\ writer_pc = "open"
    /\ writer_ret = [op |-> "none", ok |-> TRUE]
    /\ added = <<>>
    /\ offered = <<>>
    /\ close_at = [cd |-> 0, eocdr |-> 0]

\* ZipFileWriter::new (write/mod.rs 60-63) over a sink with some fault
InitWriter ==
    /\ sink = SinkNew
    /\ sink_fault \in Faults
    /\ cd_entries = <<>>
    /\ written = 0
    /\ writer_pc = "open"
    /\ writer_ret = [op |-> "none", ok |-> TRUE]
    /\ added = <<>>
    /\ offered = <<>>
    /\ close_at = [cd |-> 0, eocdr |-> 0]

\* ZipFileWriter::write_entry (write/mod.rs 66-119)
write_entry(opts, raw_data, clock) ==
    LET lf_header == LocalFileHeaderOf(opts, raw_data, clock)
        header == CentralDirectoryHeaderOf(lf_header, opts, written)
        res == WriteChunks(sink, sink_fault, EntryChunks(opts, raw_data, clock))
    IN  /\ sink' = res.sink
        /\ written' = written + res.n
        /\ cd_entries' = IF res.ok
                         THEN Append(cd_entries, [header |-> header, opts |-> opts])
                         ELSE cd_entries
        /\ added' = IF res.ok
                    THEN Append(added, [opts |-> opts, raw_data |-> raw_data,
                                        clock |-> clock, lfh_at |-> Len(sink.data)])
                    ELSE added
        /\ writer_ret' = [op |-> "write_entry", ok |-> res.ok]
        /\ UNCHANGED <<sink_fault, writer_pc, offered, close_at>>

\* write_entry with one of EntryInputs
WriteEntry ==
    /\ writer_pc = "open"
    /\ Len(added) < MaxEntries
    /\ \E input \in EntryInputs, clock \in Clocks : write_entry(input[1], input[2], clock)

\* a string of one byte more than a 16-bit length field can state
Long == [i \in 1..(U16_MAX + 1) |-> 97]

\* entries whose file name, extra field or comment is Long
WideInputs ==
    { <<EntryOptionsOf(Long, "Stored", <<>>, <<>>), <<102>>>>,
      <<EntryOptionsOf(<<97>>, "Stored", Long, <<>>), <<102>>>>,
      <<EntryOptionsOf(<<97>>, "Stored", <<>>, Long), <<102>>>> }

\* write_entry with one of WideInputs
WriteWideEntry ==
    /\ writer_pc = "open"
    /\ Len(added) < MaxEntries
    /\ \E input \in WideInputs, clock \in Clocks : write_entry(input[1], input[2], clock)

\* ZipFileWriter::close (write/mod.rs 129-158)
Close ==
    /\ writer_pc = "open"
    /\ LET cd_offset == written
           chunks == CloseChunks(cd_entries, cd_offset)
           res == WriteChunks(sink, sink_fault, chunks)
       IN  /\ sink' = res.sink
           /\ offered' = SubSeq(chunks, 1, Min(Len(chunks), res.done + 1))
           /\ writer_ret' = [op |-> "close", ok |-> res.ok]
           /\ close_at' = [cd |-> Len(sink.data),
                           eocdr |-> Len(WriteChunks(sink, sink_fault,
                                                     CdChunks(cd_entries)).sink.data)]
    /\ writer_pc' = "closed"
    /\ UNCHANGED <<sink_fault, cd_entries, written, added>>

(***************************************************************************)
(* The reader facades and the entry readers as a state machine             *)
(***************************************************************************)
\* the most entry readers alive at once
MaxReaders == 2

\* the sizes of the buffer a poll_read is given
ReadCaps == {1, 2, 32}

ReaderIds == 1..MaxReaders

NoFacade == [kind |-> "none", data |-> <<>>, file |-> NoZipFile("")]

NoCall == [op |-> "none", kind |-> "None", error |-> "", index |-> 0]

CallRet(op, kind, error, index) == [op |-> op, kind |-> kind, error |-> error, index |-> index]

ReaderIdle ==
    /\ facade = NoFacade
    /\ facade_ret = NoCall
    /\ readers = [r \in ReaderIds |-> NoReader]

\* a constructor returns: the facade, or the error of the parse
Constructed(kind, data, parsed) ==
    /\ facade' = IF parsed.ok THEN [kind |-> kind, data |-> data, file |-> parsed]
                 ELSE NoFacade
    /\ facade_ret' = IF parsed.ok THEN CallRet("new", "Ok", "", 0)
                     ELSE IF parsed.err = "panic" THEN CallRet("new", "Panic", "", 0)
                     ELSE CallRet("new", "Err", parsed.err, 0)

\* a constructor that parses the archive with read::file
FileFacade(kind, data) == Constructed(kind, data, file(SourceOfBytes(data)))

\* the archive a facade is constructed over: what a writer that was closed
\* left on a sink that took every write whole
ArchiveWritten ==
    /\ writer_pc = "closed"
    /\ writer_ret.ok
    /\ sink_fault = NoFault
    /\ facade_ret.op = "none"

\* read::mem::ZipFileReader::new(data)
MemNew ==
    /\ ArchiveWritten
    /\ FileFacade("mem", sink.data)
    /\ UNCHANGED readers

\* read::fs::ZipFileReader::new(path) (read/fs.rs 83-88)
FsNew ==
    /\ ArchiveWritten
    /\ FileFacade("fs", sink.data)
    /\ UNCHANGED readers

\* read::seek::ZipFileReader::new(reader) (read/seek.rs 21-27): the central
\* directory is read from reader.take(0), with 0 entries
SeekNew ==
    /\ ArchiveWritten
    /\ LET parsed == cd(SourceOfBytes(<<>>), 0, 0)
       IN  /\ facade' = [kind |-> "seek", data |-> sink.data,
                         file |-> [ok |-> TRUE, err |-> "", entries |-> parsed.entries,
                                   metas |-> parsed.metas, comment |-> <<>>]]
           /\ facade_ret' = CallRet("new", "Ok", "", 0)
    /\ UNCHANGED readers

\* the reader ids are handed out in order
FreeReader(r) ==
    /\ readers[r].state = "none"
    /\ \A q \in ReaderIds : q < r => readers[q].state # "none"

\* entry_reader(index) of read/mem.rs 61-67 and read/fs.rs 90-96: the two
\* unwraps, then a reader over the whole data from its start
entry_reader(r, index) ==
    IF index >= Len(facade.file.entries) \/ index >= Len(facade.file.metas)
    THEN /\ facade_ret' = CallRet("entry_reader", "Panic", "unwrap on None", index)
         /\ UNCHANGED readers
    ELSE /\ facade_ret' = CallRet("entry_reader", "Ok", "", index)
         /\ readers' = [readers EXCEPT ![r] =
                [new_with_owned([src |-> facade.data, pos |-> 0, fail_at |-> 0], "Deflate", 0)
                    EXCEPT !.index = index]]

\* read::mem::ZipFileReader::entry_reader (read/mem.rs 61-67)
MemEntryReader ==
    /\ facade.kind = "mem"
    /\ \E r \in ReaderIds, index \in 0..MaxEntries :
        /\ FreeReader(r)
        /\ entry_reader(r, index)
    /\ UNCHANGED facade

\* read::fs::ZipFileReader::entry_reader (read/fs.rs 90-96)
FsEntryReader ==
    /\ facade.kind = "fs"
    /\ \E r \in ReaderIds, index \in 0..MaxEntries :
        /\ FreeReader(r)
        /\ entry_reader(r, index)
    /\ UNCHANGED facade

\* the call read_to_end_checked(buf, entry) on reader r (entry.rs 75)
ReadToEndCheckedCall(r, entry_crc32) ==
    /\ readers[r].state = "open"
    /\ readers[r].pc = "idle"
    /\ readers' = [readers EXCEPT ![r].pc = "reading", ![r].crc32 = entry_crc32]
    /\ UNCHANGED <<facade, facade_ret>>

\* the call continues: one more poll_read, and the comparison at end of file
ReadToEndCheckedStep(r) ==
    /\ readers[r].pc = "reading"
    /\ \E cap \in ReadCaps :
        readers' = [readers EXCEPT ![r] = ReadToEndCheckedPoll(readers[r], cap)]
    /\ UNCHANGED <<facade, facade_ret>>

\* read_to_end_checked with the entry of the index the reader was opened for
ReadEntryChecked ==
    \E r \in ReaderIds :
        /\ readers[r].state = "open"
        /\ ReadToEndCheckedCall(r, facade.file.entries[readers[r].index + 1].crc32)

ReadEntryStep == \E r \in ReaderIds : ReadToEndCheckedStep(r)

\* a caller that asks for one entry reader only
OneReader == readers[1].state = "none"

(***************************************************************************)
(* An entry reader on its own: constructed over some source, for some      *)
(* compression and size, and read with some entry's crc32                  *)
(***************************************************************************)
\* the latest read of the source that may fail
MaxFailAt == 3

RawDatas == {<<>>, <<102>>, <<102, 111>>, <<102, 111, 111>>}

\* what follows the entry's data in the source
Trailers == {<<>>, <<80, 75>>}

NewEntryReader ==
    /\ readers[1].state = "none"
    /\ \E raw \in RawDatas, compression \in {"Stored", "Deflate"}, trailer \in Trailers,
          cut \in {0, 1}, fail_at \in 0..MaxFailAt :
        LET data == CompressedData(compression, raw)
        IN  /\ cut <= Len(data)
            /\ readers' = [readers EXCEPT ![1] =
                    new_with_owned([src |-> data \o trailer, pos |-> 0, fail_at |-> fail_at],
                                   compression, Len(data) - cut)]
    /\ UNCHANGED <<facade, facade_ret>>

ReadChecked == \E raw \in RawDatas : ReadToEndCheckedCall(1, compute_crc(raw))

ReadCheckedStep == ReadToEndCheckedStep(1)

(***************************************************************************)
(* An entry reader read with plain reads, with compute_hash called between *)
(* them                                                                    *)
(***************************************************************************)
\* the most polls of the source that return Pending before it is ready
MaxPending == 1

\* the most calls of compute_hash on one reader
MaxHashes == 2

\* a reader over a whole entry's data, whose source may fail or not be ready
NewHashedReader ==
    /\ readers[1].state = "none"
    /\ \E raw \in RawDatas, compression \in {"Stored", "Deflate"},
          fail_at \in 0..MaxFailAt, pend \in 0..MaxPending :
        LET data == CompressedData(compression, raw)
        IN  readers' = [readers EXCEPT ![1] =
                [new_with_owned([src |-> data, pos |-> 0, fail_at |-> fail_at],
                                compression, Len(data)) EXCEPT !.pend = pend]]
    /\ UNCHANGED <<facade, facade_ret>>

\* one poll_read of the entry reader by a consumer with room for cap bytes
\* (entry.rs 34-38): the bytes it delivers are the consumer's
Read ==
    /\ readers[1].state = "open"
    /\ \E cap \in ReadCaps :
        LET r == EntryPollRead(readers[1], cap)
        IN  readers' = [readers EXCEPT ![1] =
                [r.rd EXCEPT !.out = @ \o r.bytes, !.eof = @ \/ r.kind = "eof"]]
    /\ UNCHANGED <<facade, facade_ret>>

\* ZipEntryReaderExt::compute_hash (entry.rs 71-73)
ComputeHash ==
    /\ readers[1].state = "open"
    /\ readers[1].hashes < MaxHashes
    /\ LET h == swap_and_compute_hash(readers[1])
       IN  readers' = [readers EXCEPT ![1] =
               [h.rd EXCEPT !.hashes = @ + 1, !.hash = h.hash, !.mark = Len(h.rd.out),
                            !.segment = SubSeq(h.rd.out, h.rd.mark + 1, Len(h.rd.out))]]
    /\ UNCHANGED <<facade, facade_ret>>

(***************************************************************************)
(* Archives made by other programs: what our writer leaves, with fields of *)
(* the end of central directory record and of the first central directory *)
(* record overwritten                                                      *)
(***************************************************************************)
RECURSIVE ArchiveFrom(_, _, _, _)
\* the bytes on a sink that takes every write whole after write_entry for each
\* input in turn and then close() (write/mod.rs 66-158)
ArchiveFrom(snk, entries, wr, inputs) ==
    IF inputs = <<>>
    THEN WriteChunks(snk, NoFault, CloseChunks(entries, wr)).sink.data
    ELSE LET opts == Head(inputs)[1]
             raw_data == Head(inputs)[2]
             clock == <<0, 33>>
             lf_header == LocalFileHeaderOf(opts, raw_data, clock)
             res == WriteChunks(snk, NoFault, EntryChunks(opts, raw_data, clock))
         IN  ArchiveFrom(res.sink,
                         Append(entries, [header |-> CentralDirectoryHeaderOf(lf_header, opts, wr),
                                          opts |-> opts]),
                         wr + res.n, Tail(inputs))

\* archives of no, one and two entries
BaseArchives ==
    { ArchiveFrom(SinkNew, <<>>, 0, inputs) :
        inputs \in { <<>>,
                     << <<EntryOptionsOf(<<97>>, "Stored", <<>>, <<>>), <<102, 111>>>> >>,
                     << <<EntryOptionsOf(<<97>>, "Stored", <<>>, <<>>), <<102, 111>>>>,
                        <<EntryOptionsOf(<<98>>, "Deflate", <<9>>, <<99, 100>>), <<102, 111>>>> >> } }

\* the offset of the end of central directory record of an archive with no
\* archive comment, and the fields read from it
EocdrAt(data) == Len(data) - (SIGNATURE_LENGTH + EOCDR_LENGTH)

EocdrNumOfEntries(data) == from_le_bytes(SubSeq(data, EocdrAt(data) + 11, EocdrAt(data) + 12))

EocdrSizeCentDir(data) == SubSeq(data, EocdrAt(data) + 13, EocdrAt(data) + 16)

EocdrCentDirOffset(data) == from_le_bytes(SubSeq(data, EocdrAt(data) + 17, EocdrAt(data) + 20))

\* the ZIP64 markers
U32_SENTINEL == <<255, 255, 255, 255>>

U16_SENTINEL == <<255, 255>>

\* what a crafted archive states as its number of entries: the true count, the
\* ZIP64 marker, one record more than its central directory holds, or none
NumPatches == {"keep", "sentinel", "one more", "none"}

\* the size field overwritten with 0xFFFFFFFF: none, size_cent_dir of the
\* EOCDR, compressed_size or uncompressed_size of the first directory record
SizePatches == {"keep", "size_cent_dir", "compressed_size", "uncompressed_size"}

\* data with bytes written over it from offset at
Patched(data, bytes, at) ==
    [i \in 1..Len(data) |->
        IF at < i /\ i <= at + Len(bytes) THEN bytes[i - at] ELSE data[i]]

Crafted(base, num, size) ==
    LET e == EocdrAt(base)
        cd_at == EocdrCentDirOffset(base)
        count == EocdrNumOfEntries(base)
        with_num == IF num = "sentinel" THEN Patched(base, U16_SENTINEL, e + 10)
                    ELSE IF num = "one more" THEN Patched(base, to_le_bytes(count + 1, 2), e + 10)
                    ELSE IF num = "none" THEN Patched(base, to_le_bytes(0, 2), e + 10)
                    ELSE base
    IN  IF size = "size_cent_dir" THEN Patched(with_num, U32_SENTINEL, e + 12)
        ELSE IF size = "compressed_size" THEN Patched(with_num, U32_SENTINEL, cd_at + 20)
        ELSE IF size = "uncompressed_size" THEN Patched(with_num, U32_SENTINEL, cd_at + 24)
        ELSE with_num

CraftedArchives ==
    UNION { { Crafted(base, num, size) :
                num \in NumPatches,
                size \in IF EocdrNumOfEntries(base) = 0
                         THEN {"keep", "size_cent_dir"} ELSE SizePatches } :
            base \in BaseArchives }

RECURSIVE RecordSentinelFrom(_, _)
\* some central directory record from offset o on has compressed_size or
\* uncompressed_size 0xFFFFFFFF
RecordSentinelFrom(data, o) ==
    IF o + SIGNATURE_LENGTH + CDH_LENGTH > Len(data)
       \/ SubSeq(data, o + 1, o + 4) # to_le_bytes(CDFHD, 4)
    THEN FALSE
    ELSE \/ SubSeq(data, o + 21, o + 24) = U32_SENTINEL
         \/ SubSeq(data, o + 25, o + 28) = U32_SENTINEL
         \/ RecordSentinelFrom(data, o + SIGNATURE_LENGTH + CDH_LENGTH
                                      + from_le_bytes(SubSeq(data, o + 29, o + 30))
                                      + from_le_bytes(SubSeq(data, o + 31, o + 32))
                                      + from_le_bytes(SubSeq(data, o + 33, o + 34)))

\* the archive needs ZIP64: an entry count of 0xFFFF or a size of 0xFFFFFFFF
NeedsZip64(data) ==
    \/ SubSeq(data, EocdrAt(data) + 11, EocdrAt(data) + 12) = U16_SENTINEL
    \/ EocdrSizeCentDir(data) = U32_SENTINEL
    \/ RecordSentinelFrom(data, EocdrCentDirOffset(data))

\* an archive found on a disk: the state after some other program wrote and
\* closed it
ArchiveFound ==
    /\ sink \in {[data |-> a, calls |-> 0] : a \in CraftedArchives}
    /\ sink_fault = NoFault
    /\ cd_entries = <<>>
    /\ written = 0
    /\ writer_pc = "closed"
    /\ writer_ret = [op |-> "close", ok |-> TRUE]
    /\ added = <<>>
    /\ offered = <<>>
    /\ close_at = [cd |-> 0, eocdr |-> 0]

RECURSIVE RecordsFrom(_, _)
\* the number of whole central directory records from offset o on
RecordsFrom(data, o) ==
    IF o + SIGNATURE_LENGTH + CDH_LENGTH > Len(data)
       \/ SubSeq(data, o + 1, o + 4) # to_le_bytes(CDFHD, 4)
    THEN 0
    ELSE 1 + RecordsFrom(data, o + SIGNATURE_LENGTH + CDH_LENGTH
                               + from_le_bytes(SubSeq(data, o + 29, o + 30))
                               + from_le_bytes(SubSeq(data, o + 31, o + 32))
                               + from_le_bytes(SubSeq(data, o + 33, o + 34)))

(***************************************************************************)
(* Specifications                                                          *)
(***************************************************************************)
LocatorIdle ==
    /\ source = Plain(0, 0)
    /\ length = 0
    /\ position = 0
    /\ search = NoMatch
    /\ reads = 0
    /\ eocdr_pc = "start"
    /\ eocdr_ret = NoRet

NextLocator ==
    \/ EocdrStart /\ UNCHANGED <<writerVars, readerVars, searchVars>>
    \/ EocdrIterate /\ UNCHANGED <<writerVars, readerVars, searchVars>>

\* a call of eocdr() on a source of LocatorSources; no writer, no facade
InitLocatorRun ==
    /\ InitLocator
    /\ WriterIdle
    /\ ReaderIdle
    /\ SearchIdle

\* eocdr() on every source of LocatorSources
SpecLocator == InitLocatorRun /\ [][NextLocator]_vars

\* a new writer over some sink; no facade yet
InitArchive ==
    /\ InitWriter
    /\ LocatorIdle
    /\ ReaderIdle
    /\ SearchIdle

NextArchive ==
    \/ WriteEntry /\ UNCHANGED <<locVars, readerVars, searchVars>>
    \/ Close /\ UNCHANGED <<locVars, readerVars, searchVars>>
    \/ MemNew /\ UNCHANGED <<locVars, writerVars, searchVars>>
    \/ FsNew /\ UNCHANGED <<locVars, writerVars, searchVars>>
    \/ SeekNew /\ UNCHANGED <<locVars, writerVars, searchVars>>
    \/ MemEntryReader /\ OneReader /\ UNCHANGED <<locVars, writerVars, searchVars>>
    \/ FsEntryReader /\ OneReader /\ UNCHANGED <<locVars, writerVars, searchVars>>
    \/ ReadEntryChecked /\ UNCHANGED <<locVars, writerVars, searchVars>>
    \/ ReadEntryStep /\ UNCHANGED <<locVars, writerVars, searchVars>>

\* a writer's run, and the archive it leaves read back through a facade
SpecArchive == InitArchive /\ [][NextArchive]_vars

\* no entry reader constructed yet
InitEntryReader ==
    /\ LocatorIdle
    /\ WriterIdle
    /\ ReaderIdle
    /\ SearchIdle

NextEntryReader ==
    \/ NewEntryReader /\ UNCHANGED <<locVars, writerVars, searchVars>>
    \/ ReadChecked /\ UNCHANGED <<locVars, writerVars, searchVars>>
    \/ ReadCheckedStep /\ UNCHANGED <<locVars, writerVars, searchVars>>

\* one entry reader, constructed and read to its end
SpecEntryReader == InitEntryReader /\ [][NextEntryReader]_vars

\* a writer over a sink that takes every write whole; no facade yet
InitMemReaders ==
    /\ WriterIdle
    /\ LocatorIdle
    /\ ReaderIdle
    /\ SearchIdle

NextMemReaders ==
    \/ WriteEntry /\ UNCHANGED <<locVars, readerVars, searchVars>>
    \/ Close /\ UNCHANGED <<locVars, readerVars, searchVars>>
    \/ MemNew /\ UNCHANGED <<locVars, writerVars, searchVars>>
    \/ MemEntryReader /\ UNCHANGED <<locVars, writerVars, searchVars>>
    \/ ReadEntryChecked /\ UNCHANGED <<locVars, writerVars, searchVars>>
    \/ ReadEntryStep /\ UNCHANGED <<locVars, writerVars, searchVars>>

\* an archive written whole and read through the mem facade by several
\* entry readers whose calls and reads interleave
SpecMemReaders == InitMemReaders /\ [][NextMemReaders]_vars

\* a crafted archive on the disk; no facade yet
InitParse ==
    /\ ArchiveFound
    /\ LocatorIdle
    /\ ReaderIdle
    /\ SearchIdle

NextParse ==
    \/ MemNew /\ UNCHANGED <<locVars, writerVars, searchVars>>
    \/ FsNew /\ UNCHANGED <<locVars, writerVars, searchVars>>
    \/ SeekNew /\ UNCHANGED <<locVars, writerVars, searchVars>>

\* each facade constructed over each crafted archive
SpecParse == InitParse /\ [][NextParse]_vars

\* no entry reader constructed yet
InitHashed ==
    /\ LocatorIdle
    /\ WriterIdle
    /\ ReaderIdle
    /\ SearchIdle

NextHashed ==
    \/ NewHashedReader /\ UNCHANGED <<locVars, writerVars, searchVars>>
    \/ Read /\ UNCHANGED <<locVars, writerVars, searchVars>>
    \/ ComputeHash /\ UNCHANGED <<locVars, writerVars, searchVars>>

\* one entry reader, read poll by poll, with compute_hash called at any time
SpecHashed == InitHashed /\ [][NextHashed]_vars

\* a new writer over a sink that takes every write whole
InitWide ==
    /\ WriterIdle
    /\ LocatorIdle
    /\ ReaderIdle
    /\ SearchIdle

NextWide ==
    \/ WriteEntry /\ UNCHANGED <<locVars, readerVars, searchVars>>
    \/ WriteWideEntry /\ UNCHANGED <<locVars, readerVars, searchVars>>
    \/ Close /\ UNCHANGED <<locVars, readerVars, searchVars>>

\* a writer given entries with fields longer than their length fields can state
SpecWide == InitWide /\ [][NextWide]_vars

\* reverse_search_buffer is about to be called on some buffer and signature
InitSearch ==
    /\ SearchInputs
    /\ LocatorIdle
    /\ WriterIdle
    /\ ReaderIdle

NextSearch ==
    \/ ReverseSearch /\ UNCHANGED <<locVars, writerVars, readerVars>>

\* reverse_search_buffer on every buffer and signature of the bounds
SpecSearch == InitSearch /\ [][NextSearch]_vars

(***************************************************************************)
(* Claims about the locator, checked under SpecLocator                     *)
(***************************************************************************)
Returned == eocdr_pc = "done"

\* C1: for every comment length in {0, 1, 17, 18, 1000, 65535} and every length
\* of archive data before the EOCDR, eocdr() returns the offset of the EOCDR
\* signature, file_length - 22 - c (here n, the length of the data before it).
C1_LocatesEocdr ==
    (Returned /\ source \in ValidArchives) =>
        \E n \in PrefixLens, c \in CommentLens, f \in FillBytes :
            /\ source = Archive(n, c, 0, f)
            /\ n = source.len - (SIGNATURE_LENGTH + EOCDR_LENGTH) - c
            /\ eocdr_ret = RetOk(n)

\* C2: whenever eocdr() returns Ok(offset) on a source of length L,
\* 22 <= L - offset <= 22 + 65535.
C2_OffsetInSearchWindow ==
    (Returned /\ eocdr_ret.kind = "Ok") =>
        /\ SIGNATURE_LENGTH + EOCDR_LENGTH <= length - eocdr_ret.offset
        /\ length - eocdr_ret.offset <= SIGNATURE_LENGTH + EOCDR_LENGTH + U16_MAX

\* C3: when 65536 bytes holding no signature follow a valid EOCDR, eocdr()
\* returns UnableToLocateEOCDR.
C3_GarbageHidesEocdr ==
    (Returned /\ source \in GarbageArchives) => eocdr_ret = RetErr("UnableToLocateEOCDR")

\* C4: on every input shorter than 22 bytes, whatever its bytes, eocdr() returns
\* UnableToLocateEOCDR and never Ok.
C4_ShortInputRejected ==
    (Returned /\ length < SIGNATURE_LENGTH + EOCDR_LENGTH) =>
        eocdr_ret = RetErr("UnableToLocateEOCDR")

\* C18: when the last k bytes of the signature, k in {1, 2, 3}, are the first
\* bytes of one window and its first 4 - k bytes the last bytes of the adjacent
\* window below it, eocdr() returns the offset of the signature's first byte.
C18_StraddlingSignatureFound ==
    (Returned /\ source \in StraddleArchives) => eocdr_ret = RetOk(MaxPrefix)

\* C19: the assertion of eocdr() never fails, whatever the source holds.
C19_AssertionHolds == eocdr_ret # RetPanic("assert new_matched.full_match")

RECURSIVE PositionAt(_, _)
\* the position of the window read in iteration i (from 0) on a source of
\* length len
PositionAt(len, i) ==
    IF i = 0 THEN EocdrStartPosition(len)
    ELSE saturating_sub(PositionAt(len, i - 1), BUFFER_SIZE)

\* the carried match was recorded in the iteration just before, on the window
\* that starts where the window now read ends
FreshCarry ==
    /\ reads >= 1
    /\ PositionAt(length, reads - 1) = position + BUFFER_SIZE
    /\ search = reverse_search_buffer(ReadAt(source, position + BUFFER_SIZE, BUFFER_SIZE),
                                      signature)

\* C20: a carried partial match that was not recorded in the iteration just
\* before, on the adjacent window, has no influence on what an iteration
\* returns: the iteration returns what it returns with no carried match.
C20_NoStaleCarry ==
    [][(eocdr_pc = "loop" /\ search.found /\ ~FreshCarry) =>
          eocdr_ret' = EocdrIteration(source, length, position, NoMatch).ret]_vars

\* the reads of a scan that goes from the start position down to the lower
\* bound in steps of BUFFER_SIZE: 33
EOCDR_MAX_READS == (EOCDR_LOWER_BOUND - EOCDR_LENGTH - BUFFER_SIZE) \div BUFFER_SIZE + 2

\* C21: eocdr() terminates: an iteration that does not return moves the
\* position strictly down, no call makes more than 33 reads, and the call ends
\* by returning an offset or UnableToLocateEOCDR.
C21_ScanTerminates ==
    [][eocdr_pc = "loop" =>
          /\ reads' <= EOCDR_MAX_READS
          /\ eocdr_pc' = "loop" => position' < position
          /\ eocdr_pc' = "done" => eocdr_ret'.kind \in {"Ok", "Err"}]_vars

(***************************************************************************)
(* Claims about reverse_search_buffer, checked under SpecSearch            *)
(***************************************************************************)
\* the indexes (from 0) of the last byte of each whole occurrence of sig
Occurrences(buffer, sig) ==
    {i \in (Len(sig) - 1)..(Len(buffer) - 1) : SubSeq(buffer, i - Len(sig) + 2, i + 1) = sig}

\* the k < len(sig) for which the first k bytes of the buffer are the last k
\* bytes of sig
Overhangs(buffer, sig) ==
    {k \in 1..Min(Len(sig) - 1, Len(buffer)) :
        SubSeq(buffer, 1, k) = SubSeq(sig, Len(sig) - k + 1, Len(sig))}

\* C22: reverse_search_buffer returns a full match at the last byte of the
\* rightmost whole occurrence of the signature; with no whole occurrence, a
\* partial match with match_index k - 1 for the largest k below the
\* signature's length such that the buffer's first k bytes are the signature's
\* last k; and None otherwise.
C22_SearchResult ==
    rsb_ret.called =>
        LET occ == Occurrences(rsb_buffer, rsb_signature)
            over == Overhangs(rsb_buffer, rsb_signature)
        IN  rsb_ret.matched =
                IF occ # {} THEN SomeMatch(TRUE, SetMax(occ))
                ELSE IF over # {} THEN SomeMatch(FALSE, SetMax(over) - 1)
                ELSE NoMatch

\* a three-byte signature whose last two bytes, and also whose last byte,
\* start the buffer: the longer overhang is reported
C22_LongestOverhang ==
    /\ rsb_ret = [called |-> TRUE, matched |-> SomeMatch(FALSE, 1)]
    /\ Len(rsb_signature) = 3
    /\ Overhangs(rsb_buffer, rsb_signature) = {1, 2}

(***************************************************************************)
(* Properties of the writer and of the archive read back (SpecArchive)     *)
(***************************************************************************)
\* every write_entry call made so far returned Ok (a call makes five writes)
AllEntriesWritten == sink.calls = 5 * Len(added)

\* close() returned Ok after write_entry calls that all returned Ok
ClosedOk ==
    /\ writer_pc = "closed"
    /\ writer_ret.ok
    /\ sink.calls = 5 * Len(added) + 5 * Len(added) + 2

\* the n bytes of the output from offset at on (0-based), or fewer at its end
Emitted(at, n) == SubSeq(sink.data, at + 1, Min(at + n, Len(sink.data)))

\* C5: whatever entries were written with write_entry and closed, and whatever
\* facade (seek, mem, fs) then reads the bytes, the facade lists the same file
\* names in the same order and an entry reader opened for an index delivers the
\* bytes written for that entry.
C5_RoundTrip ==
    (ClosedOk /\ sink_fault = NoFault /\ facade.kind # "none") =>
        /\ Len(facade.file.entries) = Len(added)
        /\ \A i \in 1..Len(added) :
              facade.file.entries[i].filename = added[i].opts.filename
        /\ \A r \in ReaderIds :
              readers[r].pc = "done" =>
                  /\ readers[r].ret.kind = "Ok"
                  /\ readers[r].out = added[readers[r].index + 1].raw_data

\* C6: after write_entry calls that all returned Ok, each central directory
\* entry's lh_offset is the number of bytes the sink had received before that
\* entry's local file header signature, and the 4 bytes of the output at
\* lh_offset are the signature 0x04034b50.
C6_LhOffsetAtLfhSignature ==
    (writer_pc = "open" /\ AllEntriesWritten) =>
        \A i \in 1..Len(cd_entries) :
            /\ cd_entries[i].header.lh_offset = added[i].lfh_at
            /\ Emitted(cd_entries[i].header.lh_offset, 4) = to_le_bytes(LFHD, 4)

\* C7: after close() returned Ok following N write_entry calls that returned Ok,
\* the EOCDR in the output has num_of_entries_disk = num_of_entries = N, its
\* cent_dir_offset is the offset of the first central directory signature, and
\* its size_cent_dir is the number of bytes emitted from there to the EOCDR
\* signature.
C7_EocdrDescribesDirectory ==
    ClosedOk =>
        LET at == close_at.eocdr
        IN  /\ Emitted(at, 4) = to_le_bytes(EOCDD, 4)
            /\ Len(Emitted(at, 4 + EOCDR_LENGTH)) = 4 + EOCDR_LENGTH
            /\ from_le_bytes(Emitted(at + 8, 2)) = Len(added)
            /\ from_le_bytes(Emitted(at + 10, 2)) = Len(added)
            /\ from_le_bytes(Emitted(at + 12, 4)) = close_at.eocdr - close_at.cd
            /\ from_le_bytes(Emitted(at + 16, 4)) = close_at.cd

\* the central directory header write_entry built for the i-th entry added
AddedHeader(i) ==
    CentralDirectoryHeaderOf(
        LocalFileHeaderOf(added[i].opts, added[i].raw_data, added[i].clock),
        added[i].opts, added[i].lfh_at)

\* the k-th chunk of a central directory that holds the entries added, in order
AddedChunk(k) ==
    LET i == ((k - 1) \div 5) + 1
        j == ((k - 1) % 5) + 1
    IN  CASE j = 1 -> to_le_bytes(CDFHD, 4)
          [] j = 2 -> CdhToSlice(AddedHeader(i))
          [] j = 3 -> added[i].opts.filename
          [] j = 4 -> added[i].opts.extra
          [] OTHER -> added[i].opts.comment

\* the offset in data of the EOCDR the locator finds
EocdrIn(data) == eocdr(SourceOfBytes(data)).offset

\* a little-endian field of n bytes at offset at of data
FieldIn(data, at, n) == from_le_bytes(SubSeq(data, at + 1, at + n))

RECURSIVE RecordIn(_, _)
\* the offset in data of the i-th central directory record, going by the
\* lengths each record states
RecordIn(data, i) ==
    IF i = 1 THEN FieldIn(data, EocdrIn(data) + 16, 4)
    ELSE LET o == RecordIn(data, i - 1)
         IN  o + 4 + CDH_LENGTH + FieldIn(data, o + 28, 2) + FieldIn(data, o + 30, 2)
               + FieldIn(data, o + 32, 2)

\* C8: close() hands the sink the central directory records of the entries
\* added, in the order they were added (the i-th record is the i-th added
\* entry's, none is dropped, duplicated or moved), and the entries a reader
\* lists are those of the records of its data, in the records' order.
C8_DirectoryOrder ==
    /\ Len(cd_entries) = Len(added)
    /\ \A i \in 1..Len(added) : cd_entries[i].opts = added[i].opts
    /\ writer_pc = "closed" =>
          /\ \A k \in 1..Len(offered) : k <= 5 * Len(added) => offered[k] = AddedChunk(k)
          /\ writer_ret.ok => Len(offered) = 5 * Len(added) + 2
    /\ facade.kind \in {"mem", "fs"} =>
          \A i \in 1..Len(facade.file.entries) :
              LET o == RecordIn(facade.data, i)
              IN  /\ facade.file.entries[i].filename =
                        SubSeq(facade.data, o + 4 + CDH_LENGTH + 1,
                               o + 4 + CDH_LENGTH + FieldIn(facade.data, o + 28, 2))
                  /\ facade.file.metas[i].file_offset = FieldIn(facade.data, o + 42, 4)

\* two entries with different names were added, closed and read back
C8_TwoEntriesReadBack ==
    /\ ClosedOk
    /\ Len(added) = 2
    /\ added[1].opts.filename # added[2].opts.filename
    /\ facade.kind = "mem"
    /\ Len(facade.file.entries) = 2
    /\ facade.file.entries[1].filename = added[1].opts.filename
    /\ facade.file.entries[2].filename = added[2].opts.filename

\* C10: entry_reader(index) of the mem and fs facades returns the error
\* EntryIndexOutOfBounds, without a panic and without a reader, for every
\* index that is not below the number of entries.
C10_IndexOutOfBounds ==
    (facade_ret.op = "entry_reader" /\ facade_ret.index >= Len(facade.file.entries)) =>
        /\ facade_ret.kind = "Err"
        /\ facade_ret.error = "EntryIndexOutOfBounds"
        /\ \A r \in ReaderIds : readers[r].state = "none"

(***************************************************************************)
(* Properties of concurrent entry readers of the mem facade                *)
(* (SpecMemReaders)                                                        *)
(***************************************************************************)
\* C11: on the mem facade, entry readers opened by overlapping entry_reader
\* calls (for the same or for different indexes) all succeed and, however
\* their reads interleave, each delivers exactly the bytes written for its
\* own entry.
C11_ReadersDeliverOwnEntry ==
    (facade.kind = "mem" /\ \A r \in ReaderIds : readers[r].state = "open") =>
        \A r \in ReaderIds :
            readers[r].pc = "done" =>
                /\ readers[r].ret.kind = "Ok"
                /\ readers[r].out = added[readers[r].index + 1].raw_data

\* the step makes the sink's failing call
FailingStep ==
    /\ sink_fault.kind = "err"
    /\ sink.calls < sink_fault.at
    /\ sink'.calls >= sink_fault.at

\* C14: a write_entry or close during which a sink write fails makes no write
\* after the failed one, returns an error, and leaves the central directory
\* accumulator as it was.
C14_FailedWriteAborts ==
    [][FailingStep =>
        /\ sink'.calls = sink_fault.at
        /\ ~writer_ret'.ok
        /\ cd_entries' = cd_entries]_vars

\* a second write_entry has failed at a write that is not its last
C14_SecondEntryFailed ==
    /\ writer_ret = [op |-> "write_entry", ok |-> FALSE]
    /\ sink.calls = sink_fault.at
    /\ sink.calls \in 6..9
    /\ Len(cd_entries) = 1

\* a write_entry has returned an error and the writer is still open
EntryFailed ==
    /\ sink_fault.kind = "err"
    /\ sink.calls >= sink_fault.at
    /\ writer_pc = "open"

\* C15: after a write_entry that returned an error, a write_entry or close on
\* the same writer returns an error and hands nothing to the sink.
C15_NoWriteAfterError ==
    [][EntryFailed => (sink' = sink /\ ~writer_ret'.ok)]_vars

\* C16: the writer refuses an entry whose file name, extra field or comment is
\* longer than 65535 bytes, so that the length fields of every entry it has
\* accepted state the true lengths.
C16_LengthFieldsTrue ==
    \A i \in 1..Len(cd_entries) :
        /\ cd_entries[i].header.file_name_length = Len(cd_entries[i].opts.filename)
        /\ cd_entries[i].header.extra_field_length = Len(cd_entries[i].opts.extra)
        /\ cd_entries[i].header.file_comment_length = Len(cd_entries[i].opts.comment)
        /\ cd_entries[i].header.uncompressed_size = Len(added[i].raw_data)

\* C24: when write_entry has returned Ok, the sink holds, after what it held
\* before the call, the LFH signature, the LFH body, the file name, the extra
\* field and the payload, each whole and in this order, also when the sink
\* took only part of what one write offered.
C24_EntryWrittenWhole ==
    writer_ret = [op |-> "write_entry", ok |-> TRUE] =>
        LET e == added[Len(added)]
            chunks == EntryChunks(e.opts, e.raw_data, e.clock)
        IN  SubSeq(sink.data, e.lfh_at + 1, Len(sink.data))
                = chunks[1] \o chunks[2] \o chunks[3] \o chunks[4] \o chunks[5]

(***************************************************************************)
(* Properties of an entry reader (SpecEntryReader)                         *)
(***************************************************************************)
\* C9: read_to_end_checked on a fresh reader reads to end of file before it
\* compares: it returns Ok(bytes read) exactly when end of file was reached and
\* the CRC-32 of the bytes delivered is the entry's crc32, CRC32CheckError
\* exactly when end of file was reached and they differ, and the read error,
\* with no CRC verdict, exactly when a read failed before end of file.
C9_CheckedRead ==
    \A r \in ReaderIds :
        LET rd == readers[r]
            same == compute_crc(rd.out) = rd.crc32
        IN  /\ rd.pc = "reading" => (rd.ret = NoResult /\ ~rd.eof)
            /\ rd.pc = "done" =>
                  /\ rd.ret = ResultOk(Len(rd.out)) <=> (rd.eof /\ same)
                  /\ rd.ret = ResultErr("CRC32CheckError") <=> (rd.eof /\ ~same)
                  /\ rd.ret = ResultErr("UpstreamReadError") <=> ~rd.eof
                  /\ (rd.eof /\ rd.compression = "Stored") =>
                        /\ rd.out = SubSeq(rd.src, 1, rd.pos)
                        /\ rd.limit = 0 \/ rd.pos = Len(rd.src)

\* a deflated entry of several bytes was read in several polls and verified
C9_ReadAndVerified ==
    \E r \in ReaderIds :
        /\ readers[r].pc = "done"
        /\ readers[r].compression = "Deflate"
        /\ readers[r].ret = ResultOk(3)
        /\ readers[r].nreads >= 1

C12_Zip64Rejected ==
    (facade_ret.op = "new" /\ NeedsZip64(sink.data)) =>
        /\ facade_ret.kind = "Err"
        /\ facade_ret.error = "TargetZip64Unsupported"
        /\ facade = NoFacade

\* C13: a ZipFile produced by a constructor has as many entries and as many
\* metas as the EOCDR's num_of_entries says, and an archive whose central
\* directory holds fewer records than that is refused with NumOfEntriesMismatch.
C13_EntriesMatchEocdr ==
    facade_ret.op = "new" =>
        /\ facade_ret.kind = "Ok" =>
            /\ Len(facade.file.entries) = EocdrNumOfEntries(sink.data)
            /\ Len(facade.file.metas) = EocdrNumOfEntries(sink.data)
        /\ (/\ ~NeedsZip64(sink.data)
            /\ RecordsFrom(sink.data, EocdrCentDirOffset(sink.data))
                   < EocdrNumOfEntries(sink.data)) =>
            /\ facade_ret.kind = "Err"
            /\ facade_ret.error = "NumOfEntriesMismatch"

====
